---- MODULE Spec2Model ----
(***************************************************************************)
(* Latent Dirichlet allocation by collapsed Gibbs sampling (lda/lda.py).   *)
(* One LDA instance, its attributes, and the position of the call that is  *)
(* in progress on it.  Indices are 0-based as in the source: the arrays    *)
(* are functions on 0..n-1.  Floating point numbers are exact fractions    *)
(* <<numerator, denominator>> in lowest terms.                             *)
(***************************************************************************)
EXTENDS Integers, Sequences, FiniteSets, Bags, TLC

\* ------------------------------------------------------------------ bounds
MaxTokens == 3
MaxTopics == 2
MaxIter == 3
PoolSize == 3

Shapes == {<<2, 2>>}
Refreshes == {1, 2}
Seeds == {0, 1}
Alphas == {<<-1, 2>>, <<0, 1>>, <<1, 2>>}
Etas == {<<-1, 1>>, <<0, 1>>, <<1, 1>>}

\* ------------------------------------------------- floating point numbers
Abs(n) == IF n < 0 THEN -n ELSE n

RECURSIVE GCD(_, _)
GCD(a, b) == IF b = 0 THEN a ELSE GCD(b, a % b)

NaN == <<0, 0>>

\* the float n/d; x/0 is inf (nan when x is 0) as in numpy's true division
Frac(n, d) ==
    IF d = 0 THEN (IF n = 0 THEN NaN ELSE <<(IF n < 0 THEN -1 ELSE 1), 0>>)
    ELSE LET g == GCD(Abs(n), Abs(d))
             s == IF d < 0 THEN -1 ELSE 1
         IN  <<s * (n \div g), s * (d \div g)>>

FInt(n) == <<n, 1>>
Zero == FInt(0)
IsFinite(x) == x[2] # 0

\* least common denominator of two finite numbers
LCD(x, y) == (x[2] \div GCD(x[2], y[2])) * y[2]

\* x + y; with an operand that is not finite: nan if one is nan or the two are
\* infinities of opposite sign, else the infinity
FAdd(x, y) ==
    IF IsFinite(x) /\ IsFinite(y)
    THEN LET l == LCD(x, y)
         IN  Frac(x[1] * (l \div x[2]) + y[1] * (l \div y[2]), l)
    ELSE IF x = NaN \/ y = NaN \/ (~IsFinite(x) /\ ~IsFinite(y) /\ x # y) THEN NaN
    ELSE IF IsFinite(x) THEN y ELSE x
FNeg(x) == <<-x[1], x[2]>>
FSub(x, y) == FAdd(x, FNeg(y))
\* x * y for finite x and y, reduced crosswise before multiplying
FMul(x, y) ==
    LET g == GCD(Abs(x[1]), y[2])
        h == GCD(Abs(y[1]), x[2])
    IN  Frac((x[1] \div g) * (y[1] \div h), (x[2] \div h) * (y[2] \div g))
\* x / y for finite x and y
FDiv(x, y) ==
    IF y[1] = 0 THEN Frac(x[1], 0)
    ELSE FMul(x, Frac(y[2], y[1]))
FAbs(x) == <<Abs(x[1]), x[2]>>
\* comparisons of finite numbers
FLess(x, y) == LET l == LCD(x, y) IN x[1] * (l \div x[2]) < y[1] * (l \div y[2])
FLeq(x, y) == LET l == LCD(x, y) IN x[1] * (l \div x[2]) <= y[1] * (l \div y[2])

\* sum of f[k] for k in lo..hi, left to right
RECURSIVE FSum(_, _, _)
FSum(f, lo, hi) == IF hi < lo THEN Zero ELSE FAdd(FSum(f, lo, hi - 1), f[hi])

RECURSIVE ISum(_, _, _)
ISum(f, lo, hi) == IF hi < lo THEN 0 ELSE ISum(f, lo, hi - 1) + f[hi]

\* --------------------------------------------------------- input matrices
\* X.shape and int(X.sum())
Rows(X) == Len(X)
Cols(X) == Len(X[1])
Total(X) == ISum([d \in 1..Rows(X) |-> ISum(X[d], 1, Cols(X))], 1, Rows(X))

MatricesOf(D, W, n) ==
    {X \in [1..D -> [1..W -> 0..n]] : Total(X) <= n}

Matrices == UNION {MatricesOf(s[1], s[2], MaxTokens) : s \in Shapes}

\* lda.utils.matrix_to_lists: one token per unit of count, row-major, as the
\* sequence of <<word, document>> pairs
RECURSIVE Repeat(_, _)
Repeat(x, c) == IF c = 0 THEN <<>> ELSE <<x>> \o Repeat(x, c - 1)

RECURSIVE CellTokens(_, _)
CellTokens(X, f) ==
    IF f = Rows(X) * Cols(X) THEN <<>>
    ELSE LET d == f \div Cols(X)
             w == f % Cols(X)
         IN  Repeat(<<w, d>>, X[d + 1][w + 1]) \o CellTokens(X, f + 1)

matrix_to_lists(X) ==
    LET t == CellTokens(X, 0)
    IN  <<[i \in 0..Len(t) - 1 |-> t[i + 1][1]], [i \in 0..Len(t) - 1 |-> t[i + 1][2]]>>

\* ------------------------------------------------------- random generator
\* numpy RandomState, as a multiplicative congruential generator on 1..6
RandomState(seed) == (seed % 6) + 1
RngNext(s) == (3 * s) % 7
\* a uniform variate in [0, 1)
RngUniform(s) == Frac((s - 1) % 3, 3)

\* rng.rand(n): n variates from state s
RECURSIVE rand(_, _)
rand(s, n) == IF n = 0 THEN <<>> ELSE <<RngUniform(RngNext(s))>> \o rand(RngNext(s), n - 1)

\* random_state.shuffle(x): Fisher-Yates from the last position down, one
\* draw per position; x is a sequence, the result is <<shuffled, new state>>
RECURSIVE ShuffleFrom(_, _, _)
ShuffleFrom(x, s, k) ==
    IF k <= 1 THEN <<x, s>>
    ELSE LET s1 == RngNext(s)
             j == (s1 % k) + 1
             y == [x EXCEPT ![k] = x[j], ![j] = x[k]]
         IN  ShuffleFrom(y, s1, k - 1)

shuffle(x, s) == ShuffleFrom(x, s, Len(x))

\* ------------------------------------------------------------------- state
VARIABLES
    attrs,            \* names of the attributes the instance has (hasattr)
    n_topics, n_iter, alpha, eta, random_state, refresh,
    _rands,           \* the random variate pool
    nzw_, ndz_, nz_,  \* count tables
    WS, DS, ZS,       \* token store
    loglikelihoods_,
    pc,               \* position of the call in progress
    X,                \* the matrix last given to _initialize
    it,               \* _fit's loop variable
    iterations, st_it, rands, rng,   \* sample_topics' locals
    i, z_new,         \* the sampler's token index and selected topic
    sweeps,           \* history: sweeps completed since _initialize
    ll_at,            \* history: value of sweeps at each recorded likelihood
    prev,             \* history: outcome of the last completed fit
    returned          \* what the last transform call returned, with its arguments

self_vars == <<attrs, n_topics, n_iter, alpha, eta, random_state, refresh, _rands>>
count_vars == <<nzw_, ndz_, nz_>>
store_vars == <<WS, DS, ZS>>
st_vars == <<iterations, st_it, rands, rng>>
vars == <<self_vars, count_vars, store_vars, loglikelihoods_, pc, X, it,
          st_vars, i, z_new, sweeps, ll_at, prev, returned>>

NoMatrix == <<>>
HyperAttrs == {"n_topics", "n_iter", "alpha", "eta", "random_state", "refresh"}
CountAttrs == {"nzw_", "ndz_", "nz_"}
StoreAttrs == {"WS", "DS", "ZS"}

Init ==
    /\ attrs = {}
    /\ n_topics = 0 /\ n_iter = 0 /\ alpha = Zero /\ eta = Zero
    /\ random_state = 0 /\ refresh = 0
    /\ _rands = <<>>
    /\ nzw_ = <<>> /\ ndz_ = <<>> /\ nz_ = <<>>
    /\ WS = <<>> /\ DS = <<>> /\ ZS = <<>>
    /\ loglikelihoods_ = <<>>
    /\ pc = "new"
    /\ X = NoMatrix
    /\ it = 0
    /\ iterations = 0 /\ st_it = 0 /\ rands = <<>> /\ rng = 0
    /\ i = 0 /\ z_new = 0
    /\ sweeps = 0 /\ ll_at = <<>>
    /\ prev = {}
    /\ returned = {}

\* ------------------------------------------------------------ construction
\* the inputs a fit's outcome is claimed to depend on
RunKey(Xin, k, a, e, s, n) == <<Xin, k, a, e, s, n>>

\* history kept only while the next run can still be compared with it
KeepPrev(Xin, k, a, e, s, n) ==
    {p \in prev : p.key = RunKey(Xin, k, a, e, s, n)}

BadHyperLax(a, e) == FLess(a, Zero) \/ FLess(e, Zero)

\* line 95: alpha <= 0 or eta <= 0
BadHyper(a, e) == FLeq(a, Zero) \/ FLeq(e, Zero)

\* LDA(n_topics, n_iter, alpha, eta, random_state, refresh)
__init__(k, n, a, e, s, r) ==
    /\ pc \in {"new", "failed", "idle"}
    /\ n_topics' = k /\ n_iter' = n /\ alpha' = a /\ eta' = e
    /\ random_state' = s /\ refresh' = r
    /\ IF BadHyper(a, e)
       THEN /\ attrs' = HyperAttrs
            /\ _rands' = <<>>
            /\ pc' = "failed"
       ELSE /\ attrs' = HyperAttrs \cup {"_rands"}
            /\ _rands' = rand(RandomState(s), PoolSize)
            /\ pc' = "idle"
    /\ nzw_' = <<>> /\ ndz_' = <<>> /\ nz_' = <<>>
    /\ WS' = <<>> /\ DS' = <<>> /\ ZS' = <<>>
    /\ loglikelihoods_' = <<>> /\ ll_at' = <<>> /\ sweeps' = 0
    /\ X' = NoMatrix
    /\ prev' = {p \in prev : Tail(p.key) = Tail(RunKey(NoMatrix, k, a, e, s, n))}
    /\ returned' = {}
    /\ UNCHANGED <<it, st_vars, i, z_new>>

\* ---------------------------------------------------------- initialization
InitTopicByWord(idx, w, k) == w % k

\* line 271: z_new = i % n_topics
InitTopic(idx, w, k) == idx % k

Bump(f, a, b, by) == [f EXCEPT ![a][b] = @ + by]

InitCountNoTotal(st, w, d, z) ==
    [st EXCEPT !.ndz = Bump(@, d, z, 1), !.nzw = Bump(@, z, w, 1)]

InitCountNoDoc(st, w, d, z) ==
    [st EXCEPT !.nzw = Bump(@, z, w, 1), !.nz[z] = @ + 1]

\* lines 273-275
InitCount(st, w, d, z) ==
    [st EXCEPT !.ndz = Bump(@, d, z, 1), !.nzw = Bump(@, z, w, 1), !.nz[z] = @ + 1]

\* lines 269-275: for i in range(N)
RECURSIVE InitLoop(_, _, _, _, _, _)
InitLoop(idx, N, ws, ds, k, st) ==
    IF idx = N THEN st
    ELSE LET w == ws[idx]
             d == ds[idx]
             z == InitTopic(idx, w, k)
             st1 == InitCount([st EXCEPT !.ZS[idx] = z], w, d, z)
         IN  InitLoop(idx + 1, N, ws, ds, k, st1)

\* lines 252-276; np.empty_like leaves ZS unset, every entry is written
\* before it is read
_initialize(Xin, k) ==
    LET D == Rows(Xin)
        W == Cols(Xin)
        N == Total(Xin)
        lists == matrix_to_lists(Xin)
        st0 == [nzw |-> [z \in 0..k - 1 |-> [w \in 0..W - 1 |-> 0]],
                ndz |-> [d \in 0..D - 1 |-> [z \in 0..k - 1 |-> 0]],
                nz |-> [z \in 0..k - 1 |-> 0],
                ZS |-> [t \in 0..N - 1 |-> 0]]
    IN  InitLoop(0, N, lists[1], lists[2], k, st0) @@
        [WS |-> lists[1], DS |-> lists[2]]

DoInitialize(Xin) ==
    LET st == _initialize(Xin, n_topics)
    IN  /\ nzw_' = st.nzw /\ ndz_' = st.ndz /\ nz_' = st.nz
        /\ WS' = st.WS /\ DS' = st.DS /\ ZS' = st.ZS
        /\ attrs' = attrs \cup CountAttrs \cup StoreAttrs \cup {"loglikelihoods_"}
        /\ loglikelihoods_' = <<>>
        /\ ll_at' = <<>> /\ sweeps' = 0
        /\ X' = Xin
        /\ prev' = KeepPrev(Xin, n_topics, alpha, eta, random_state, n_iter)
        /\ returned' = {}
        /\ UNCHANGED <<n_topics, n_iter, alpha, eta, random_state, refresh, _rands>>

\* --------------------------------------------------------------- likelihood
\* lda._lda._loglikelihood(nzw, ndz, nz, nd, alpha, eta), uninterpreted: the
\* value is represented by the arguments it is computed from
loglikelihood ==
    LET nd == [d \in DOMAIN ndz_ |-> ISum(ndz_[d], 0, n_topics - 1)]
    IN  <<nzw_, ndz_, nz_, nd, alpha, eta>>

\* ------------------------------------------------------------------ sampler
NTokens == Cardinality(DOMAIN WS)
VocabSize == Cardinality(DOMAIN nzw_[0])

\* lines 290-291: a generator from the seed and a copy of the pool
EnterSampleTopics(n) ==
    /\ iterations' = n /\ st_it' = 0
    /\ rands' = _rands
    /\ rng' = RandomState(random_state)
    /\ pc' = "st_loop"

sweep_begin_in_place ==
    /\ pc = "st_loop" /\ st_it < iterations
    /\ LET sh == shuffle(rands, rng)
       IN  rands' = sh[1] /\ rng' = sh[2] /\ _rands' = sh[1]
    /\ i' = 0
    /\ pc' = "exclude"
    /\ UNCHANGED <<attrs, n_topics, n_iter, alpha, eta, random_state, refresh,
                   count_vars, store_vars, loglikelihoods_, X, it,
                   iterations, st_it, z_new, sweeps, ll_at, prev, returned>>

\* lines 292-294: shuffle the copy and hand it to the sampler
sweep_begin ==
    /\ pc = "st_loop" /\ st_it < iterations
    /\ LET sh == shuffle(rands, rng)
       IN  rands' = sh[1] /\ rng' = sh[2]
    /\ i' = 0
    /\ pc' = "exclude"
    /\ UNCHANGED <<self_vars, count_vars, store_vars, loglikelihoods_, X, it,
                   iterations, st_it, z_new, sweeps, ll_at, prev, returned>>

\* step 1, exclude self
exclude ==
    /\ pc = "exclude" /\ i < NTokens
    /\ LET w == WS[i]
           d == DS[i]
           z == ZS[i]
       IN  /\ nzw_' = Bump(nzw_, z, w, -1)
           /\ ndz_' = Bump(ndz_, d, z, -1)
           /\ nz_' = [nz_ EXCEPT ![z] = @ - 1]
    /\ pc' = "sample"
    /\ UNCHANGED <<self_vars, store_vars, loglikelihoods_, X, it, st_vars,
                   i, z_new, sweeps, ll_at, prev, returned>>

\* step 2: (topicWord[z][w] + eta) * (docTopic[d][z] + alpha)
\*         / (topicTotal[z] + eta * vocab_size)
mass(z, w, d) ==
    FDiv(FMul(FAdd(FInt(nzw_[z][w]), eta), FAdd(FInt(ndz_[d][z]), alpha)),
         FAdd(FInt(nz_[z]), FMul(eta, FInt(VocabSize))))

\* step 3: cumulative sums, r = variate * total, the smallest index whose
\* cumulative sum is >= r, clamped to n_topics - 1
select(w, d, u) ==
    LET m == [z \in 0..n_topics - 1 |-> mass(z, w, d)]
        cum == [z \in 0..n_topics - 1 |-> FSum(m, 0, z)]
        r == FMul(u, cum[n_topics - 1])
        hits == {z \in 0..n_topics - 1 : FLeq(r, cum[z])}
    IN  IF hits = {} THEN n_topics - 1
        ELSE CHOOSE z \in hits : \A y \in hits : z <= y

sample ==
    /\ pc = "sample"
    /\ z_new' = select(WS[i], DS[i], rands[(i % Len(rands)) + 1])
    /\ pc' = "reinstate"
    /\ UNCHANGED <<self_vars, count_vars, store_vars, loglikelihoods_, X,
                   it, st_vars, i, sweeps, ll_at, prev, returned>>

\* step 4, reinstate
reinstate ==
    /\ pc = "reinstate"
    /\ LET w == WS[i]
           d == DS[i]
       IN  /\ nzw_' = Bump(nzw_, z_new, w, 1)
           /\ ndz_' = Bump(ndz_, d, z_new, 1)
           /\ nz_' = [nz_ EXCEPT ![z_new] = @ + 1]
    /\ ZS' = [ZS EXCEPT ![i] = z_new]
    /\ i' = i + 1
    /\ pc' = "exclude"
    /\ UNCHANGED <<self_vars, WS, DS, loglikelihoods_, X, it, st_vars,
                   z_new, sweeps, ll_at, prev, returned>>

\* the sampler returns: one sweep is complete
sweep_done ==
    /\ pc = "exclude" /\ i = NTokens
    /\ st_it' = st_it + 1
    /\ sweeps' = sweeps + 1
    /\ i' = 0 /\ z_new' = 0
    /\ pc' = "st_loop"
    /\ UNCHANGED <<self_vars, count_vars, store_vars, loglikelihoods_, X,
                   it, iterations, rands, rng, ll_at, prev, returned>>

\* sample_topics returns to _fit's loop, line 235
sample_topics_return ==
    /\ pc = "st_loop" /\ st_it = iterations
    /\ rands' = <<>> /\ rng' = 0 /\ iterations' = 0 /\ st_it' = 0
    /\ it' = it + refresh
    /\ pc' = "fit_loop"
    /\ UNCHANGED <<self_vars, count_vars, store_vars, loglikelihoods_, X,
                   i, z_new, sweeps, ll_at, prev, returned>>

\* --------------------------------------------------------------------- fit
Min(a, b) == IF a < b THEN a ELSE b

\* lines 124-139, 233: fit(X) initializes and enters the loop of line 235
fit(Xin) ==
    /\ pc = "idle"
    /\ DoInitialize(Xin)
    /\ it' = 0
    /\ pc' = "fit_loop"
    /\ UNCHANGED <<st_vars, i, z_new>>

BlockSizeFull(r, n, t) == r

\* line 241: min(self.refresh, self.n_iter - it)
BlockSize(r, n, t) == Min(r, n - t)

\* lines 235-242: a checkpoint, then a block of sweeps
fit_block ==
    /\ pc = "fit_loop" /\ it < n_iter
    /\ loglikelihoods_' = Append(loglikelihoods_, loglikelihood)
    /\ ll_at' = Append(ll_at, sweeps)
    /\ EnterSampleTopics(BlockSize(refresh, n_iter, it))
    /\ UNCHANGED <<self_vars, count_vars, store_vars, X, it, i, z_new, sweeps, prev,
                   returned>>

\* lines 243-245: the last checkpoint
fit_final ==
    /\ pc = "fit_loop" /\ it >= n_iter
    /\ loglikelihoods_' = Append(loglikelihoods_, loglikelihood)
    /\ ll_at' = Append(ll_at, sweeps)
    /\ pc' = "cleanup"
    /\ UNCHANGED <<self_vars, count_vars, store_vars, X, it, st_vars, i,
                   z_new, sweeps, prev, returned>>

Outcome ==
    [key |-> RunKey(X, n_topics, alpha, eta, random_state, n_iter),
     refresh |-> refresh, ZS |-> ZS, nzw |-> nzw_, ndz |-> ndz_, nz |-> nz_]

\* lines 247, 304-313: the token store is deleted
DoCleanUp ==
    /\ pc = "cleanup"
    /\ attrs' = attrs \ StoreAttrs
    /\ WS' = <<>> /\ DS' = <<>> /\ ZS' = <<>>
    /\ it' = 0
    /\ pc' = "idle"
    /\ UNCHANGED <<n_topics, n_iter, alpha, eta, random_state, refresh, _rands,
                   count_vars, loglikelihoods_, X, st_vars, i, z_new,
                   sweeps, ll_at, returned>>

clean_up == DoCleanUp /\ UNCHANGED prev

\* the same step, with the run's outcome kept as history
clean_up_recorded == DoCleanUp /\ prev' = {Outcome}

\* ------------------------------------------------------------- projections
components_axis0 ==
    LET components == [z \in DOMAIN nzw_ |->
                          [w \in DOMAIN nzw_[z] |-> FAdd(FInt(nzw_[z][w]), eta)]]
        sums == [w \in DOMAIN nzw_[0] |->
                    FSum([z \in DOMAIN nzw_ |-> components[z][w]], 0, n_topics - 1)]
    IN  [z \in DOMAIN nzw_ |->
            [w \in DOMAIN nzw_[z] |-> FDiv(components[z][w], sums[w])]]

\* lines 315-320
components_ ==
    LET components == [z \in DOMAIN nzw_ |->
                          [w \in DOMAIN nzw_[z] |-> FAdd(FInt(nzw_[z][w]), eta)]]
        sums == [z \in DOMAIN nzw_ |-> FSum(components[z], 0, VocabSize - 1)]
    IN  [z \in DOMAIN nzw_ |->
            [w \in DOMAIN nzw_[z] |-> FDiv(components[z][w], sums[z])]]

\* lines 326-330
doc_topic_ ==
    LET doc_topic == [d \in DOMAIN ndz_ |->
                         [z \in DOMAIN ndz_[d] |-> FAdd(FInt(ndz_[d][z]), alpha)]]
        sums == [d \in DOMAIN ndz_ |-> FSum(doc_topic[d], 0, n_topics - 1)]
    IN  [d \in DOMAIN ndz_ |->
            [z \in DOMAIN ndz_[d] |-> FDiv(doc_topic[d][z], sums[d])]]

\* --------------------------------------------------------------- transform
Select(q, keep) ==
    LET F[k \in 0..Len(q)] ==
            IF k = 0 THEN <<>>
            ELSE IF keep[k] THEN Append(F[k - 1], q[k]) ELSE F[k - 1]
    IN  F[Len(q)]

AsSeq(f) == [k \in 1..Cardinality(DOMAIN f) |-> f[k - 1]]

\* the words of document 0, whichever document is asked for
DocWordsFirst(ws, ds, d) ==
    Select(AsSeq(ws), [k \in 1..Cardinality(DOMAIN ws) |-> ds[k - 1] = 0])

\* line 199: ws_doc = WS[DS == d]
DocWords(ws, ds, d) ==
    Select(AsSeq(ws), [k \in 1..Cardinality(DOMAIN ws) |-> ds[k - 1] = d])

\* the function f on 0..n-1, and the sequence f on 1..n, with every value
\* computed once
RECURSIVE Row(_, _)
Row(f, n) == IF n = 0 THEN <<>> ELSE Row(f, n - 1) @@ ((n - 1) :> f[n - 1])

RECURSIVE Rws(_, _)
Rws(f, n) == IF n = 0 THEN <<>> ELSE Append(Rws(f, n - 1), f[n])

RowSum(row, k) == FSum(row, 0, k - 1)
ColSums(P, k) ==
    Row([z \in 0..k - 1 |-> FSum([r \in 1..Len(P) |-> P[r][z]], 1, Len(P))], k)

NormalizeRow(row, k) ==
    LET total == RowSum(row, k)
    IN  Row([z \in 0..k - 1 |-> FDiv(row[z], total)], k)

\* P /= P.sum(axis=1)[:, np.newaxis]
NormalizeRows(P, k) == Rws([r \in 1..Len(P) |-> NormalizeRow(P[r], k)], Len(P))

\* lines 207-210: PZS_sum -= PZS[i]; PZS_new[i] = phi[:, w] * (PZS_sum + alpha);
\* PZS_sum += PZS[i]
RECURSIVE UpdateRows(_, _, _, _, _, _, _, _)
UpdateRows(phi, ws_doc, a, k, PZS, PZS_sum, r, PZS_new) ==
    IF r > Len(ws_doc) THEN PZS_new
    ELSE LET w == ws_doc[r]
             less == Row([z \in 0..k - 1 |-> FSub(PZS_sum[z], PZS[r][z])], k)
             row == Row([z \in 0..k - 1 |-> FMul(phi[z][w], FAdd(less[z], a))], k)
             more == Row([z \in 0..k - 1 |-> FAdd(less[z], PZS[r][z])], k)
         IN  UpdateRows(phi, ws_doc, a, k, PZS, more, r + 1, Append(PZS_new, row))

\* line 212: np.abs(PZS_new - PZS).sum()
Delta(P, Q, k) ==
    FSum([r \in 1..Len(P) |->
             FSum([z \in 0..k - 1 |-> FAbs(FSub(P[r][z], Q[r][z]))], 0, k - 1)],
         1, Len(P))

\* lines 205-216: for s in range(max_iter), with the early break
RECURSIVE Rounds(_, _, _, _, _, _, _, _)
Rounds(phi, ws_doc, a, k, PZS, s, max_iter, tol) ==
    IF s >= max_iter THEN [PZS |-> PZS, rounds |-> s]
    ELSE LET PZS_new == NormalizeRows(
                 UpdateRows(phi, ws_doc, a, k, PZS, ColSums(PZS, k), 1, <<>>), k)
             delta_naive == Delta(PZS_new, PZS, k)
         IN  IF FLess(delta_naive, tol)
             THEN [PZS |-> PZS_new, rounds |-> s + 1]
             ELSE Rounds(phi, ws_doc, a, k, PZS_new, s + 1, max_iter, tol)

\* lines 199-221, one document
TransformDoc(phi, ws_doc, a, k, max_iter, tol) ==
    LET PZS0 == NormalizeRows(
                    [r \in 1..Len(ws_doc) |->
                        [z \in 0..k - 1 |-> FMul(phi[z][ws_doc[r]], a)]], k)
        last == Rounds(phi, ws_doc, a, k, PZS0, 0, max_iter, tol)
        sums == ColSums(last.PZS, k)
        total == RowSum(sums, k)
    IN  [theta_doc |-> Row([z \in 0..k - 1 |-> FDiv(sums[z], total)], k),
         sums |-> sums, total |-> total, rounds |-> last.rounds]

\* lines 191-222
TransformAll(phi, a, Xt, max_iter, tol) ==
    LET lists == matrix_to_lists(Xt)
        k == Cardinality(DOMAIN phi)
    IN  [d \in 0..Rows(Xt) - 1 |->
            TransformDoc(phi, DocWords(lists[1], lists[2], d), a, k, max_iter, tol)]

ModelState == <<nzw_, ndz_, nz_, n_topics, alpha, eta, loglikelihoods_>>

\* transform(X, max_iter, tol) on a fitted instance
transform(Xt, max_iter, tol) ==
    /\ pc = "idle" /\ CountAttrs \subseteq attrs
    /\ Cols(Xt) = VocabSize
    /\ LET out == TransformAll(components_, alpha, Xt, max_iter, tol)
       IN  returned' = {[X |-> Xt, max_iter |-> max_iter, tol |-> tol,
                         before |-> ModelState,
                         doc_topic |-> [d \in DOMAIN out |-> out[d].theta_doc],
                         sums |-> [d \in DOMAIN out |-> out[d].sums],
                         total |-> [d \in DOMAIN out |-> out[d].total],
                         rounds |-> [d \in DOMAIN out |-> out[d].rounds]]}
    /\ UNCHANGED <<self_vars, count_vars, store_vars, loglikelihoods_, pc, X, it,
                   st_vars, i, z_new, sweeps, ll_at, prev>>

\* ----------------------------------------------------------- specification
Configure ==
    /\ pc = "new"
    /\ \E k \in 1..MaxTopics, n \in 0..MaxIter, a \in Alphas, e \in Etas,
          s \in Seeds, r \in Refreshes : __init__(k, n, a, e, s, r)

Next ==
    \/ Configure
    \/ \E Xin \in Matrices : fit(Xin)
    \/ sweep_begin
    \/ exclude
    \/ sample
    \/ reinstate
    \/ sweep_done
    \/ sample_topics_return
    \/ fit_block
    \/ fit_final
    \/ clean_up

Spec == Init /\ [][Next]_vars

\* a second construction, after a completed fit
Reconfigure ==
    /\ pc = "idle" /\ prev # {}
    /\ \E k \in 1..MaxTopics, n \in 0..MaxIter, a \in Alphas, e \in Etas,
          s \in Seeds, r \in Refreshes : __init__(k, n, a, e, s, r)

RunMatrices == {Xin \in Matrices : Total(Xin) = MaxTokens /\ Xin[1][1] > 0 /\ Xin[2][2] > 0}

\* the same program with the outcome of each completed fit kept, so that two
\* runs can be compared
NextRuns ==
    \/ Configure
    \/ Reconfigure
    \/ \E Xin \in RunMatrices : fit(Xin)
    \/ sweep_begin
    \/ exclude
    \/ sample
    \/ reinstate
    \/ sweep_done
    \/ sample_topics_return
    \/ fit_block
    \/ fit_final
    \/ clean_up_recorded

SpecRuns == Init /\ [][NextRuns]_vars

\* transform is computed exactly, so its inputs are kept to documents whose
\* fractions stay within TLC's 32-bit integers
TransformIters == {0, 1, 2}
Tolerances == {Zero, <<1, 10>>}
TestMatrices == MatricesOf(2, 2, 2)

\* one sweep over the training matrix, then transform calls
ConfigureOneSweep ==
    /\ pc = "new"
    /\ \E k \in 1..MaxTopics, a \in Alphas, e \in Etas, s \in Seeds :
          __init__(k, 1, a, e, s, 1)

\* the calls whose exact fractions keep numerators and denominators below 2^31: a
\* document's tokens times the rounds it is given
DocTokens(Xt, d) == ISum(Xt[d], 1, Cols(Xt))
TransformCases ==
    {c \in TestMatrices \X TransformIters \X Tolerances :
        \A d \in 1..Rows(c[1]) : DocTokens(c[1], d) * c[2] <= 2}

\* one call per fitted model: a call leaves the model as it was, so a second
\* call from the same model reaches the states the first one reaches
TransformCall ==
    /\ returned = {}
    /\ \E c \in TransformCases : transform(c[1], c[2], c[3])

NextTransform ==
    \/ ConfigureOneSweep
    \/ \E Xin \in RunMatrices : fit(Xin)
    \/ sweep_begin
    \/ exclude
    \/ sample
    \/ reinstate
    \/ sweep_done
    \/ sample_topics_return
    \/ fit_block
    \/ fit_final
    \/ clean_up
    \/ TransformCall

SpecTransform == Init /\ [][NextTransform]_vars

\* ------------------------------------------------------------------ claims
Initialized == CountAttrs \subseteq attrs
HasStore == StoreAttrs \subseteq attrs
Topics == 0..n_topics - 1
Words == 0..Cols(X) - 1
Docs == 0..Rows(X) - 1
BetweenSweeps == pc \in {"idle", "fit_loop", "st_loop", "cleanup"}
MidToken == pc \in {"sample", "reinstate"}
One == FInt(1)

WordSum(z) == ISum(nzw_[z], 0, Cols(X) - 1)
DocSum(z) == ISum([d \in Docs |-> ndz_[d][z]], 0, Rows(X) - 1)

\* C1: whenever the tables exist and no sweep is under way, for every topic z
\* the sum over words of nzw_[z][w] equals nz_[z] and equals the sum over
\* documents of ndz_[d][z], and the nz_[z] add up to the token count of X.
C1_CountInvariants ==
    (Initialized /\ BetweenSweeps) =>
        /\ \A z \in Topics : WordSum(z) = nz_[z] /\ nz_[z] = DocSum(z)
        /\ ISum(nz_, 0, n_topics - 1) = Total(X)

\* the invariants after two sweeps that moved a token off its initial topic
C1_Witness ==
    /\ pc = "st_loop" /\ sweeps >= 2
    /\ \E t \in DOMAIN ZS : ZS[t] # t % n_topics

\* C3: an instance whose alpha or eta is not positive is a failed instance:
\* it has no variate pool, no token store and no count table, and it is never
\* in a state where a call can be made on it.
C3_ConstructionRejects ==
    ("alpha" \in attrs /\ (FLeq(alpha, Zero) \/ FLeq(eta, Zero))) =>
        /\ pc = "failed"
        /\ attrs = HyperAttrs
        /\ _rands = <<>>
        /\ nzw_ = <<>> /\ ndz_ = <<>> /\ nz_ = <<>>
        /\ WS = <<>> /\ DS = <<>> /\ ZS = <<>>

\* construction rejected at the boundary alpha = 0 with a valid eta
C3_Witness ==
    pc = "failed" /\ alpha = Zero /\ FLess(Zero, eta) /\ "n_topics" \in attrs

\* C4: whenever the tables exist, every row of components_ and of doc_topic_
\* sums to 1 and its normaliser, the sum of count + eta (count + alpha), is
\* positive.
C4_StochasticRows ==
    Initialized =>
        /\ \A z \in Topics :
              /\ FSum(components_[z], 0, Cols(X) - 1) = One
              /\ FLess(Zero, FSum([w \in Words |-> FAdd(FInt(nzw_[z][w]), eta)],
                                  0, Cols(X) - 1))
        /\ \A d \in Docs :
              /\ FSum(doc_topic_[d], 0, n_topics - 1) = One
              /\ FLess(Zero, FSum([z \in Topics |-> FAdd(FInt(ndz_[d][z]), alpha)],
                                  0, n_topics - 1))

\* after a sweep, a topic with no tokens beside a document with no tokens
C4_Witness ==
    /\ Initialized /\ sweeps >= 1 /\ pc = "fit_loop"
    /\ \E z \in Topics : nz_[z] = 0
    /\ \E d \in Docs : \A z \in Topics : ndz_[d][z] = 0
    /\ Total(X) > 0

SeqBag(q) == [v \in {q[k] : k \in DOMAIN q} |-> Cardinality({k \in DOMAIN q : q[k] = v})]
InSweep == pc \in {"exclude", "sample", "reinstate"}

\* C6 as stated: after a sweep the pool stored on the instance is the
\* permutation that sweep consumed.
C6_PoolShuffledInPlace ==
    (pc = "st_loop" /\ st_it > 0) => _rands = rands

\* C6 as amended: the instance's pool is the one drawn at construction, in
\* its construction order, in every state; what a sweep consumes is a
\* shuffled copy with the same multiset of values.
C6_PoolFixed ==
    /\ "_rands" \in attrs => _rands = rand(RandomState(random_state), PoolSize)
    /\ (InSweep \/ pc = "st_loop") => SeqBag(rands) = SeqBag(_rands)

\* a completed sweep that consumed the pool in another order
C6_Witness ==
    pc = "st_loop" /\ st_it > 0 /\ rands # _rands

TokenIds == DOMAIN ZS
TopicWord(z, w, S) == Cardinality({t \in TokenIds \ S : ZS[t] = z /\ WS[t] = w})
DocTopic(d, z, S) == Cardinality({t \in TokenIds \ S : ZS[t] = z /\ DS[t] = d})
TopicTotal(z, S) == Cardinality({t \in TokenIds \ S : ZS[t] = z})

\* the tables count the assignments of every token outside S
TablesCount(S) ==
    /\ \A z \in Topics, w \in Words : nzw_[z][w] = TopicWord(z, w, S)
    /\ \A d \in Docs, z \in Topics : ndz_[d][z] = DocTopic(d, z, S)
    /\ \A z \in Topics : nz_[z] = TopicTotal(z, S)

FreshlyInitialized == HasStore /\ sweeps = 0 /\ pc \in {"fit_loop", "st_loop", "cleanup"}

C8_ExcludeSelf ==
    /\ MidToken => TablesCount({i})
    /\ pc = "exclude" => TablesCount({})
    /\ Initialized =>
          /\ \A z \in Topics, w \in Words : nzw_[z][w] >= 0
          /\ \A d \in Docs, z \in Topics : ndz_[d][z] >= 0
          /\ \A z \in Topics : nz_[z] >= 0

\* the only token of its topic is excluded and a different topic is selected
C8_Witness ==
    /\ pc = "reinstate" /\ nz_[ZS[i]] = 0 /\ z_new # ZS[i] /\ sweeps >= 1

Ceil(n, r) == (n + r - 1) \div r

\* C9: a fit starts with an empty history, runs blocks of at most refresh
\* sweeps, and ends after exactly n_iter sweeps with ceil(n_iter / refresh) + 1
\* likelihoods, the j-th recorded after min((j - 1) * refresh, n_iter) sweeps,
\* the first on the freshly initialized tables.
C9_Checkpoints ==
    /\ (pc = "fit_loop" /\ it = 0) => loglikelihoods_ = <<>> /\ sweeps = 0
    /\ (InSweep \/ pc = "st_loop") => iterations <= refresh /\ iterations >= 1
    /\ pc = "cleanup" =>
          /\ sweeps = n_iter
          /\ Len(loglikelihoods_) = Ceil(n_iter, refresh) + 1
          /\ ll_at = [j \in 1..Ceil(n_iter, refresh) + 1 |-> Min((j - 1) * refresh, n_iter)]
          /\ LET st == _initialize(X, n_topics)
             IN  loglikelihoods_[1][1] = st.nzw /\ loglikelihoods_[1][2] = st.ndz
                 /\ loglikelihoods_[1][3] = st.nz

\* a fit of 3 sweeps in blocks of 2: a full block and a partial one
C9_Witness ==
    pc = "cleanup" /\ n_iter = 3 /\ refresh = 2 /\ NTokens > 0

ThisRun == RunKey(X, n_topics, alpha, eta, random_state, n_iter)
SameOutcome(p) == p.ZS = ZS /\ p.nzw = nzw_ /\ p.ndz = ndz_ /\ p.nz = nz_

\* C2: a fit that ends after an earlier fit of the same matrix with the same
\* n_topics, alpha, eta, seed and n_iter ends with the same topic assignments
\* and the same count tables.
C2_Determinism ==
    pc = "cleanup" => \A p \in prev : p.key = ThisRun => SameOutcome(p)

\* two such fits that were also made with the same refresh agree
RunsAgreeSameRefresh ==
    pc = "cleanup" =>
        \A p \in prev : (p.key = ThisRun /\ p.refresh = refresh) => SameOutcome(p)

\* the mixture transform computes for the single document row
Alone(r, d) ==
    TransformAll(components_, alpha, <<r.X[d + 1]>>, r.max_iter, r.tol)[0].theta_doc

\* C5: after a transform call the count tables, the hyperparameters and the
\* likelihood history are what they were before the call, and the row returned
\* for each document is the row a call with that document alone returns.
C5_TransformFrame ==
    \A r \in returned :
        /\ r.before = ModelState
        /\ \A d \in DOMAIN r.doc_topic : r.doc_topic[d] = Alone(r, d)

\* a call with two different non-empty documents and at least one round, on a
\* model of two topics
C5_Witness ==
    \E r \in returned :
        /\ Rows(r.X) = 2 /\ r.X[1] # r.X[2] /\ r.max_iter >= 1
        /\ DocTokens(r.X, 1) > 0 /\ DocTokens(r.X, 2) > 0
        /\ n_topics = 2 /\ r.doc_topic[0] # r.doc_topic[1]

\* C10: for every document of a transform call, the loop ran at most max_iter
\* rounds, the total of the column sums is not zero, every entry of the
\* mixture is its column sum divided by that total, and the entries sum to 1.
C10_WellDefinedMixture ==
    \A r \in returned : \A d \in DOMAIN r.doc_topic :
        /\ r.rounds[d] <= r.max_iter
        /\ r.total[d] # Zero
        /\ \A z \in Topics : r.doc_topic[d][z] = FDiv(r.sums[d][z], r.total[d])
        /\ FSum(r.doc_topic[d], 0, n_topics - 1) = One

\* the same for the documents that have at least one token
MixtureOfNonEmpty ==
    \A r \in returned : \A d \in DOMAIN r.doc_topic :
        DocTokens(r.X, d + 1) > 0 =>
            /\ r.rounds[d] <= r.max_iter
            /\ r.total[d] = FInt(DocTokens(r.X, d + 1))
            /\ FSum(r.doc_topic[d], 0, n_topics - 1) = One

====
